---- MODULE Spec2Model ----
(***************************************************************************)
(* MIFARE Classic poller (lib/nfc/protocols/mf_classic/mf_classic_poller_i.c)*)
(* as a state machine.  One action per exported operation; every action     *)
(* runs the whole handler against the link-layer outcomes it is given.      *)
(***************************************************************************)
EXTENDS Integers, Sequences, FiniteSets, TLC

VARIABLES auth_state, poller_state, crypto, last

vars == <<auth_state, poller_state, crypto, last>>

(***************************************************************************)
(* Bytes, bit buffers, checksum                                            *)
(***************************************************************************)

\* The keystream of the modelled cipher repeats after this many nibbles (the
\* real generator has a finite state as well, only a much longer period).
KsPeriod == 3

RECURSIVE XorBits(_, _, _)
XorBits(a, b, n) ==
    IF n = 0 THEN 0
    ELSE ((a + b) % 2) + 2 * XorBits(a \div 2, b \div 2, n - 1)

XorNibble == [a \in 0..15 |-> [b \in 0..15 |-> XorBits(a, b, 4)]]

Xor(a, b) == XorNibble[a % 16][b % 16] + 16 * XorNibble[a \div 16][b \div 16]

RECURSIVE SumUpTo(_, _)
SumUpTo(s, n) == IF n = 0 THEN 0 ELSE s[n] + SumUpTo(s, n - 1)

SumBytes(s) == SumUpTo(s, Len(s))


\* BitBuffer: size in bits and the bytes holding them.
BitBuffer(data) == [bits |-> 8 * Len(data), data |-> data]

NibbleBuffer(b) == [bits |-> 4, data |-> <<b % 16>>]

bit_buffer_get_size(buf) == buf.bits

bit_buffer_get_size_bytes(buf) == (buf.bits + 7) \div 8

bit_buffer_get_byte(buf, i) == IF i + 1 <= Len(buf.data) THEN buf.data[i + 1] ELSE 0

\* Checksum of a byte string (two bytes).
CrcA(data) ==
    LET s == SumBytes(data) + 99 * Len(data) + 1
    IN  <<s % 256, (s \div 256 + 7 * s) % 256>>

iso14443_crc_append(buf) == BitBuffer(buf.data \o CrcA(buf.data))

iso14443_crc_check(buf) ==
    LET n == Len(buf.data)
    IN  /\ n >= 2
        /\ SubSeq(buf.data, n - 1, n) = CrcA(SubSeq(buf.data, 1, n - 2))

iso14443_crc_trim(buf) == BitBuffer(SubSeq(buf.data, 1, Len(buf.data) - 2))

(***************************************************************************)
(* Cipher session: the key material it was initialised from and the        *)
(* keystream position.                                                     *)
(***************************************************************************)

Crypto1Reset == [key |-> 0, uid |-> 0, nt |-> <<0, 0, 0, 0>>, pos |-> 0]

KsSeed(c) == c.key + c.uid + SumBytes(c.nt)

KsByte(k, pos) == IF k = 0 THEN 0 ELSE (k * 29 + (pos % KsPeriod) * 53 + 17) % 256

\* The keystream position is counted in nibbles, the smallest unit a frame of
\* this protocol consumes.
crypto1_advance(c, nbits) == [c EXCEPT !.pos = (c.pos + nbits \div 4) % KsPeriod]

\* Encryption and decryption are the same keystream XOR; a buffer that ends in
\* a partial byte only uses that many keystream bits of it.
Crypt(c, buf) ==
    LET k == KsSeed(c)
    IN  [bits |-> buf.bits,
         data |-> [i \in 1..Len(buf.data) |->
                     IF 8 * i <= buf.bits
                     THEN Xor(buf.data[i], KsByte(k, c.pos + 2 * (i - 1)))
                     ELSE Xor(buf.data[i], KsByte(k, c.pos + 2 * (i - 1))) % 16]]

crypto1_encrypt(c, buf) == [crypto |-> crypto1_advance(c, buf.bits), out |-> Crypt(c, buf)]

crypto1_decrypt(c, buf) == [crypto |-> crypto1_advance(c, buf.bits), out |-> Crypt(c, buf)]

crypto1_word(c) == crypto1_advance(c, 32)

(***************************************************************************)
(* Error mapper                                                            *)
(***************************************************************************)

Iso14443_3aError ==
    {"None", "NotPresent", "ColResFailed", "BufferOverflow", "Communication",
     "FieldOff", "WrongCrc", "Timeout"}

\* Faulty variant: a value the switch does not list keeps the initial none.
mf_classic_process_error_DefaultNone(error) ==
    CASE error = "NotPresent" -> "NotPresent"
      [] error \in {"ColResFailed", "Communication", "WrongCrc"} -> "Protocol"
      [] error = "Timeout" -> "Timeout"
      [] OTHER -> "None"

mf_classic_process_error(error) ==
    CASE error = "None" -> "None"
      [] error = "NotPresent" -> "NotPresent"
      [] error \in {"ColResFailed", "Communication", "WrongCrc"} -> "Protocol"
      [] error = "Timeout" -> "Timeout"
      [] OTHER -> "Protocol"

(***************************************************************************)
(* Protocol constants and the link layer                                   *)
(***************************************************************************)

MF_CLASSIC_CMD_AUTH_KEY_A == 96

MF_CLASSIC_CMD_AUTH_KEY_B == 97

MF_CLASSIC_CMD_BACKDOOR_AUTH_KEY_A == 100

MF_CLASSIC_CMD_BACKDOOR_AUTH_KEY_B == 101

MF_CLASSIC_CMD_HALT_MSB == 80

MF_CLASSIC_CMD_HALT_LSB == 0

MF_CLASSIC_CMD_READ_BLOCK == 48

MF_CLASSIC_CMD_ACK == 10

SizeofMfClassicNt == 4

SizeofMfClassicBlock == 16

\* A frame handed to the link layer: the primitive used, the command it
\* carries and the bits sent.
Frame(via, what, buf) == [via |-> via, what |-> what, buf |-> buf]

\* What one link-layer exchange gives back: its outcome and the receive
\* buffer it filled.  `reply.data` is what the tag put on the wire.
LinkRx(reply) == [error |-> reply.error, rx |-> reply.data]

\* An exchange inside an authenticated session: the tag encrypts what it
\* answers under the keystream at the reader's current position.
SessionRx(c, reply) == [error |-> reply.error, rx |-> Crypt(c, reply.data)]

\* The link layer's own halt: it sends the plain HLTA frame and forces the
\* link-layer poller state to idle.
iso14443_3a_poller_halt(ps) == "Idle"

(***************************************************************************)
(* NonceExchange                                                           *)
(***************************************************************************)

AuthType(key_type, backdoor_auth) ==
    IF ~backdoor_auth
    THEN (IF key_type = "B" THEN MF_CLASSIC_CMD_AUTH_KEY_B ELSE MF_CLASSIC_CMD_AUTH_KEY_A)
    ELSE (IF key_type = "B" THEN MF_CLASSIC_CMD_BACKDOOR_AUTH_KEY_B
                            ELSE MF_CLASSIC_CMD_BACKDOOR_AUTH_KEY_A)

\* The link outcome that lets the fresh nonce request go on to the size check.
GetNtFreshExpected == "WrongCrc"

\* Faulty variant: the nested request takes the checksum failure as the fresh one does.
GetNtNestedExpected_AsFresh == "WrongCrc"

\* The link outcome that lets the nested nonce request go on to the size check.
GetNtNestedExpected == "None"

\* Result: ret, the cipher afterwards, whether *nt was written and with what,
\* the frames sent and the collaborators called, in order.
mf_classic_poller_get_nt_common(c, block_num, key_type, has_nt, is_nested, backdoor_auth, reply) ==
    LET tx_plain == BitBuffer(<<AuthType(key_type, backdoor_auth), block_num>>)
        enc      == crypto1_encrypt(c, iso14443_crc_append(tx_plain))
        got      == LinkRx(reply)
        expected == IF is_nested THEN GetNtNestedExpected ELSE GetNtFreshExpected
        linkFail == got.error # expected
        sizeFail == bit_buffer_get_size_bytes(got.rx) # SizeofMfClassicNt
        done     == ~linkFail /\ ~sizeFail
    IN  [ret    |-> IF linkFail THEN mf_classic_process_error(got.error)
                    ELSE IF sizeFail THEN "Protocol" ELSE "None",
         crypto |-> IF is_nested THEN enc.crypto ELSE c,
         nt_written |-> done /\ has_nt,
         nt     |-> IF done /\ has_nt THEN SubSeq(got.rx.data, 1, SizeofMfClassicNt)
                    ELSE <<>>,
         tx     |-> IF is_nested THEN <<Frame("txrx_custom_parity", "auth_cmd", enc.out)>>
                    ELSE <<Frame("send_standard_frame", "auth_cmd", tx_plain)>>,
         calls  |-> IF is_nested THEN <<"crypto1_encrypt", "txrx_custom_parity">>
                    ELSE <<"send_standard_frame">>]

mf_classic_poller_get_nt(c, block_num, key_type, has_nt, backdoor_auth, reply) ==
    mf_classic_poller_get_nt_common(c, block_num, key_type, has_nt, FALSE, backdoor_auth, reply)

mf_classic_poller_get_nt_nested(c, block_num, key_type, has_nt, backdoor_auth, reply) ==
    mf_classic_poller_get_nt_common(c, block_num, key_type, has_nt, TRUE, backdoor_auth, reply)

(***************************************************************************)
(* AuthenticationEngine                                                    *)
(***************************************************************************)

RECURSIVE bit_lib_bytes_to_num_be(_)
bit_lib_bytes_to_num_be(s) ==
    IF s = <<>> THEN 0
    ELSE s[Len(s)] + 256 * bit_lib_bytes_to_num_be(SubSeq(s, 1, Len(s) - 1))

\* Identity of the activated card, as the link-layer poller holds it.
PollerUid == <<0, 0, 18, 52>>

iso14443_3a_get_cuid(uid) == bit_lib_bytes_to_num_be(SubSeq(uid, Len(uid) - 3, Len(uid)))

\* The reader's answer to a tag nonce, before encryption.
ReaderAnswer(nt) == [i \in 1..4 |-> (nt[i] * 5 + 3) % 256]

\* Initialises the cipher from (key, uid, nt), feeds uid^nt through it and
\* produces the 8-byte {nr}{ar} frame; the keystream position carries over
\* from the live session when the authentication is nested.
crypto1_encrypt_reader_nonce(c, key_num, cuid, nt, nr, is_nested) ==
    LET c0 == [key |-> key_num, uid |-> cuid, nt |-> nt,
               pos |-> IF is_nested THEN c.pos ELSE 0]
        c1 == crypto1_advance(c0, 32)
    IN  crypto1_encrypt(c1, BitBuffer(nr \o ReaderAnswer(nt)))

NoTranscript == [nt |-> <<>>, nr |-> <<>>, ar |-> <<>>, at |-> <<>>]

Take(s, n) == SubSeq(s, 1, IF Len(s) < n THEN Len(s) ELSE n)

\* The length the tag's answer to the reader frame must have.
AuthAnswerSize == 4

\* The do-while body of mf_classic_poller_auth_common.
\* inst: [auth_state, poller_state, crypto].  Result: ret, the instance
\* afterwards, the caller's transcript (a field left <<>> was not written),
\* the frames sent and the collaborators called, in order.
AuthBody(inst, block_num, key, key_type, has_data, is_nested, backdoor_auth, early_ret, reply1, nr, reply2) ==
    LET g   == IF is_nested
               THEN mf_classic_poller_get_nt_nested(inst.crypto, block_num, key_type,
                                                    TRUE, backdoor_auth, reply1)
               ELSE mf_classic_poller_get_nt(inst.crypto, block_num, key_type,
                                             TRUE, backdoor_auth, reply1)
        nt  == IF g.nt_written THEN g.nt ELSE <<0, 0, 0, 0>>
        ctx1 == IF has_data THEN [NoTranscript EXCEPT !.nt = nt] ELSE NoTranscript
        cuid == iso14443_3a_get_cuid(PollerUid)
        key_num == bit_lib_bytes_to_num_be(key)
        ern == crypto1_encrypt_reader_nonce(g.crypto, key_num, cuid, nt, nr, is_nested)
        got == LinkRx(reply2)
        ret2 == IF bit_buffer_get_size_bytes(got.rx) # AuthAnswerSize THEN "Auth" ELSE "None"
        same == [auth_state |-> inst.auth_state, poller_state |-> inst.poller_state]
        sent == [tx |-> g.tx \o <<Frame("txrx_custom_parity", "nr_ar", ern.out)>>]
    IN  IF g.ret # "None"
        THEN same @@ [ret |-> g.ret, crypto |-> g.crypto, ctx |-> NoTranscript,
                      tx |-> g.tx, calls |-> g.calls]
        ELSE IF early_ret
        THEN same @@ [ret |-> "None", crypto |-> g.crypto, ctx |-> ctx1,
                      tx |-> g.tx, calls |-> g.calls]
        ELSE IF got.error # "None"
        THEN same @@ sent @@
             [ret |-> mf_classic_process_error(got.error), crypto |-> ern.crypto,
              ctx |-> ctx1,
              calls |-> g.calls \o <<"furi_hal_random_fill_buf",
                                     "crypto1_encrypt_reader_nonce", "txrx_custom_parity">>]
        ELSE sent @@
             [ret |-> ret2, auth_state |-> "Passed", poller_state |-> inst.poller_state,
              crypto |-> crypto1_word(ern.crypto),
              ctx |-> IF has_data
                      THEN [ctx1 EXCEPT !.nr = nr,
                                        !.ar = SubSeq(ern.out.data, 5, 8),
                                        !.at = Take(got.rx.data, 4)]
                      ELSE ctx1,
              calls |-> g.calls \o <<"furi_hal_random_fill_buf",
                                     "crypto1_encrypt_reader_nonce", "txrx_custom_parity",
                                     "crypto1_word">>]

\* Faulty variant: the halt on the error path also ends the session.
AuthHaltOnError_SessionReset(inst, body) ==
    IF body.ret # "None"
    THEN [body EXCEPT !.calls = @ \o <<"iso14443_3a_poller_halt">>,
                      !.poller_state = iso14443_3a_poller_halt(inst.poller_state),
                      !.auth_state = "Idle"]
    ELSE body

\* Faulty variant: the halt on the error path is left out.
AuthHaltOnError_Skipped(inst, body) == body

\* After the loop: a call that is about to return an error halts the link
\* layer first.
AuthHaltOnError(inst, body) ==
    IF body.ret # "None"
    THEN [body EXCEPT !.calls = @ \o <<"iso14443_3a_poller_halt">>,
                      !.poller_state = iso14443_3a_poller_halt(inst.poller_state)]
    ELSE body

\* Faulty variant: a TagResponse of the wrong length leaves the loop at once.
mf_classic_poller_auth_common_BreakOnSize(inst, block_num, key, key_type, has_data, is_nested, backdoor_auth, early_ret, reply1, nr, reply2) ==
    LET body == AuthBody(inst, block_num, key, key_type, has_data, is_nested,
                         backdoor_auth, early_ret, reply1, nr, reply2)
    IN  AuthHaltOnError(inst, IF body.ret = "Auth"
                              THEN [body EXCEPT !.auth_state = inst.auth_state]
                              ELSE body)

mf_classic_poller_auth_common(inst, block_num, key, key_type, has_data, is_nested, backdoor_auth, early_ret, reply1, nr, reply2) ==
    AuthHaltOnError(inst, AuthBody(inst, block_num, key, key_type, has_data, is_nested,
                                   backdoor_auth, early_ret, reply1, nr, reply2))

mf_classic_poller_auth(inst, block_num, key, key_type, has_data, backdoor_auth, reply1, nr, reply2) ==
    mf_classic_poller_auth_common(inst, block_num, key, key_type, has_data, FALSE,
                                  backdoor_auth, FALSE, reply1, nr, reply2)

\* Faulty variant: early_ret is not passed on.
mf_classic_poller_auth_nested_NoEarlyRet(inst, block_num, key, key_type, has_data, backdoor_auth, early_ret, reply1, nr, reply2) ==
    mf_classic_poller_auth_common(inst, block_num, key, key_type, has_data, TRUE,
                                  backdoor_auth, FALSE, reply1, nr, reply2)

mf_classic_poller_auth_nested(inst, block_num, key, key_type, has_data, backdoor_auth, early_ret, reply1, nr, reply2) ==
    mf_classic_poller_auth_common(inst, block_num, key, key_type, has_data, TRUE,
                                  backdoor_auth, early_ret, reply1, nr, reply2)

(***************************************************************************)
(* SessionTeardown                                                         *)
(***************************************************************************)

\* Faulty variant: halt expects the tag to answer.
HaltExpected_Answered == "None"

\* The link outcome halt takes as the tag having halted.
HaltExpected == "Timeout"

mf_classic_poller_halt(inst, reply) ==
    LET halt_cmd == BitBuffer(<<MF_CLASSIC_CMD_HALT_MSB, MF_CLASSIC_CMD_HALT_LSB>>)
        enc == crypto1_encrypt(inst.crypto, iso14443_crc_append(halt_cmd))
        got == SessionRx(enc.crypto, reply)
        ok  == got.error = HaltExpected
    IN  [ret |-> IF ok THEN "None" ELSE mf_classic_process_error(got.error),
         auth_state |-> IF ok THEN "Idle" ELSE inst.auth_state,
         poller_state |-> IF ok THEN "Idle" ELSE inst.poller_state,
         crypto |-> enc.crypto,
         tx |-> <<Frame("txrx_custom_parity", "halt_cmd", enc.out)>>,
         calls |-> <<"crypto1_encrypt", "txrx_custom_parity">>]

(***************************************************************************)
(* BlockIO                                                                 *)
(***************************************************************************)

MF_CLASSIC_CMD_WRITE_BLOCK == 160

\* Faulty variant: read does not test the checksum.
ReadCrcOk_Unchecked(buf) == TRUE

\* The checksum test read applies to the decrypted answer.
ReadCrcOk(buf) == iso14443_crc_check(buf)

\* Result of read: `data` is the caller's block if it was written, <<>> if not.
mf_classic_poller_read_block(inst, block_num, reply) ==
    LET cmd == BitBuffer(<<MF_CLASSIC_CMD_READ_BLOCK, block_num>>)
        enc == crypto1_encrypt(inst.crypto, iso14443_crc_append(cmd))
        got == SessionRx(enc.crypto, reply)
        dec == crypto1_decrypt(enc.crypto, got.rx)
        base == [auth_state |-> inst.auth_state, poller_state |-> inst.poller_state,
                 tx |-> <<Frame("txrx_custom_parity", "read_cmd", enc.out)>>]
    IN  IF got.error # "None"
        THEN base @@ [ret |-> mf_classic_process_error(got.error), crypto |-> enc.crypto,
                      data |-> <<>>, calls |-> <<"crypto1_encrypt", "txrx_custom_parity">>]
        ELSE IF bit_buffer_get_size_bytes(got.rx) # SizeofMfClassicBlock + 2
        THEN base @@ [ret |-> "Protocol", crypto |-> enc.crypto,
                      data |-> <<>>, calls |-> <<"crypto1_encrypt", "txrx_custom_parity">>]
        ELSE IF ~ReadCrcOk(dec.out)
        THEN base @@ [ret |-> "Protocol", crypto |-> dec.crypto, data |-> <<>>,
                      calls |-> <<"crypto1_encrypt", "txrx_custom_parity",
                                  "crypto1_decrypt">>]
        ELSE base @@ [ret |-> "None", crypto |-> dec.crypto,
                      data |-> Take(iso14443_crc_trim(dec.out).data, SizeofMfClassicBlock),
                      calls |-> <<"crypto1_encrypt", "txrx_custom_parity",
                                  "crypto1_decrypt">>]

\* Faulty variant: the acknowledge code is not looked at.
AckExchange_NoAckCheck(c, what, plain, reply) ==
    LET enc == crypto1_encrypt(c, iso14443_crc_append(plain))
        got == SessionRx(enc.crypto, reply)
        dec == crypto1_decrypt(enc.crypto, got.rx)
        tx  == <<Frame("txrx_custom_parity", what, enc.out)>>
    IN  IF got.error # "None"
        THEN [ret |-> mf_classic_process_error(got.error), crypto |-> enc.crypto,
              tx |-> tx, calls |-> <<"crypto1_encrypt", "txrx_custom_parity">>]
        ELSE IF bit_buffer_get_size(got.rx) # 4
        THEN [ret |-> "Protocol", crypto |-> enc.crypto,
              tx |-> tx, calls |-> <<"crypto1_encrypt", "txrx_custom_parity">>]
        ELSE [ret |-> "None", crypto |-> dec.crypto, tx |-> tx,
              calls |-> <<"crypto1_encrypt", "txrx_custom_parity", "crypto1_decrypt">>]

\* One encrypted command/acknowledge exchange, as write, apply and transfer
\* all perform it: ret is "None" only for a 4-bit ACK received with no link
\* error.  Result: ret, the cipher afterwards, the frame sent, the calls made.
AckExchange(c, what, plain, reply) ==
    LET enc == crypto1_encrypt(c, iso14443_crc_append(plain))
        got == SessionRx(enc.crypto, reply)
        dec == crypto1_decrypt(enc.crypto, got.rx)
        tx  == <<Frame("txrx_custom_parity", what, enc.out)>>
    IN  IF got.error # "None"
        THEN [ret |-> mf_classic_process_error(got.error), crypto |-> enc.crypto,
              tx |-> tx, calls |-> <<"crypto1_encrypt", "txrx_custom_parity">>]
        ELSE IF bit_buffer_get_size(got.rx) # 4
        THEN [ret |-> "Protocol", crypto |-> enc.crypto,
              tx |-> tx, calls |-> <<"crypto1_encrypt", "txrx_custom_parity">>]
        ELSE [ret |-> IF bit_buffer_get_byte(dec.out, 0) # MF_CLASSIC_CMD_ACK
                      THEN "Protocol" ELSE "None",
              crypto |-> dec.crypto, tx |-> tx,
              calls |-> <<"crypto1_encrypt", "txrx_custom_parity", "crypto1_decrypt">>]

\* Faulty variant: the data frame is sent whatever the first answer was.
mf_classic_poller_write_block_NoAckGate(inst, block_num, data, reply1, reply2) ==
    LET p1 == AckExchange(inst.crypto, "write_cmd",
                          BitBuffer(<<MF_CLASSIC_CMD_WRITE_BLOCK, block_num>>), reply1)
        p2 == AckExchange(p1.crypto, "write_data", BitBuffer(data), reply2)
    IN  [auth_state |-> inst.auth_state, poller_state |-> inst.poller_state,
         ret |-> p2.ret, crypto |-> p2.crypto, tx |-> p1.tx \o p2.tx,
         calls |-> p1.calls \o p2.calls]

mf_classic_poller_write_block(inst, block_num, data, reply1, reply2) ==
    LET p1 == AckExchange(inst.crypto, "write_cmd",
                          BitBuffer(<<MF_CLASSIC_CMD_WRITE_BLOCK, block_num>>), reply1)
        p2 == AckExchange(p1.crypto, "write_data", BitBuffer(data), reply2)
        base == [auth_state |-> inst.auth_state, poller_state |-> inst.poller_state]
    IN  IF p1.ret # "None"
        THEN base @@ p1
        ELSE base @@ [ret |-> p2.ret, crypto |-> p2.crypto, tx |-> p1.tx \o p2.tx,
                      calls |-> p1.calls \o p2.calls]

(***************************************************************************)
(* ValueOps                                                                *)
(***************************************************************************)

MF_CLASSIC_CMD_VALUE_DEC == 192

MF_CLASSIC_CMD_VALUE_INC == 193

MF_CLASSIC_CMD_VALUE_RESTORE == 194

MF_CLASSIC_CMD_VALUE_TRANSFER == 176

\* The bytes of a 32-bit signed integer as they lie in memory (little endian,
\* two's complement).
Int32Bytes(v) == [i \in 1..4 |-> (v \div (256 ^ (i - 1))) % 256]

ValueCmdByte(cmd) ==
    IF cmd = "Decrement" THEN MF_CLASSIC_CMD_VALUE_DEC
    ELSE IF cmd = "Increment" THEN MF_CLASSIC_CMD_VALUE_INC
    ELSE MF_CLASSIC_CMD_VALUE_RESTORE

\* Faulty variant: apply expects the operand frame to be answered.
ValueOperandExpected_Answered == "None"

\* The link outcome of the operand frame that apply takes as success.
ValueOperandExpected == "Timeout"

mf_classic_poller_value_cmd(inst, block_num, cmd, data, reply1, reply2) ==
    LET p1  == AckExchange(inst.crypto, "value_cmd",
                           BitBuffer(<<ValueCmdByte(cmd), block_num>>), reply1)
        enc == crypto1_encrypt(p1.crypto, iso14443_crc_append(BitBuffer(Int32Bytes(data))))
        got == SessionRx(enc.crypto, reply2)
        base == [auth_state |-> inst.auth_state, poller_state |-> inst.poller_state]
    IN  IF p1.ret # "None"
        THEN base @@ p1
        ELSE base @@ [ret |-> IF got.error # ValueOperandExpected THEN "Protocol" ELSE "None",
                      crypto |-> enc.crypto,
                      tx |-> p1.tx \o <<Frame("txrx_custom_parity", "value_operand", enc.out)>>,
                      calls |-> p1.calls \o <<"crypto1_encrypt", "txrx_custom_parity">>]

\* Faulty variant: a failed transfer ends the session.
mf_classic_poller_value_transfer_ResetsAuth(inst, block_num, reply) ==
    LET p == AckExchange(inst.crypto, "transfer_cmd",
                         BitBuffer(<<MF_CLASSIC_CMD_VALUE_TRANSFER, block_num>>), reply)
    IN  [auth_state |-> IF p.ret # "None" THEN "Idle" ELSE inst.auth_state,
         poller_state |-> inst.poller_state] @@ p

mf_classic_poller_value_transfer(inst, block_num, reply) ==
    [auth_state |-> inst.auth_state, poller_state |-> inst.poller_state]
    @@ AckExchange(inst.crypto, "transfer_cmd",
                   BitBuffer(<<MF_CLASSIC_CMD_VALUE_TRANSFER, block_num>>), reply)

(***************************************************************************)
(* EncryptedFrameTransceiver                                               *)
(***************************************************************************)

\* The three plain primitives hand the caller's buffer to the link layer as
\* it is; `via` names the link-layer call.  rx is the caller's receive buffer.
PlainSend(inst, via, tx_buffer, reply) ==
    LET got == LinkRx(reply)
    IN  [ret |-> mf_classic_process_error(got.error),
         auth_state |-> inst.auth_state, poller_state |-> inst.poller_state,
         crypto |-> inst.crypto, rx |-> got.rx,
         tx |-> <<Frame(via, "caller", tx_buffer)>>, calls |-> <<via>>]

mf_classic_poller_send_standard_frame(inst, tx_buffer, reply) ==
    PlainSend(inst, "send_standard_frame", tx_buffer, reply)

mf_classic_poller_send_frame(inst, tx_buffer, reply) ==
    PlainSend(inst, "txrx", tx_buffer, reply)

mf_classic_poller_send_custom_parity_frame(inst, tx_buffer, reply) ==
    PlainSend(inst, "txrx_custom_parity", tx_buffer, reply)

\* rx is the caller's receive buffer, <<>> when it was not written.
mf_classic_poller_send_encrypted_frame(inst, tx_buffer, reply) ==
    LET enc == crypto1_encrypt(inst.crypto, tx_buffer)
        got == SessionRx(enc.crypto, reply)
        dec == crypto1_decrypt(enc.crypto, got.rx)
        base == [auth_state |-> inst.auth_state, poller_state |-> inst.poller_state,
                 tx |-> <<Frame("txrx_custom_parity", "caller", enc.out)>>]
    IN  IF got.error # "None"
        THEN base @@ [ret |-> mf_classic_process_error(got.error), crypto |-> enc.crypto,
                      rx |-> <<>>, calls |-> <<"crypto1_encrypt", "txrx_custom_parity">>]
        ELSE base @@ [ret |-> "None", crypto |-> dec.crypto, rx |-> dec.out,
                      calls |-> <<"crypto1_encrypt", "txrx_custom_parity",
                                  "crypto1_decrypt">>]

(***************************************************************************)
(* Inputs                                                                  *)
(***************************************************************************)

KeyTypes == {"A", "B"}

Blocks == {0, 5}

KeyA == <<0, 0, 0, 0, 160, 161>>

\* Values the hardware RNG may fill the reader nonce with.
NrValues == {<<7, 0, 0, 9>>, <<222, 173, 190, 239>>}

\* Link-layer failures, one of each class the error mapper distinguishes
\* (FieldOff is one it does not list).
FailErrors == {"NotPresent", "Timeout", "WrongCrc", "FieldOff"}

\* The block the block and value commands address.
BlockNum == 5

Ok(buf) == [error |-> "None", data |-> buf]

Failed(e) == [error |-> e, data |-> BitBuffer(<<>>)]

NoReply == Failed("Unused")

NtPayload == <<1, 2, 3, 164>>

\* Arguments of a nonce request: every key type and backdoor flag with a nonce
\* to fill, each block, and one call that passes no nonce.
NtArgs ==
    {[block_num |-> 0, key_type |-> k, has_nt |-> TRUE, backdoor_auth |-> d] :
        k \in KeyTypes, d \in BOOLEAN}
    \cup {[block_num |-> b, key_type |-> "A", has_nt |-> TRUE, backdoor_auth |-> FALSE] :
              b \in Blocks}
    \cup {[block_num |-> 0, key_type |-> "A", has_nt |-> FALSE, backdoor_auth |-> FALSE]}

\* Answers to an authenticate command: 4 bytes or not, checksum-valid for the
\* link layer or not, or no usable answer.
NonceReplies ==
    {[error |-> "None", data |-> BitBuffer(NtPayload)],
     [error |-> "None", data |-> BitBuffer(<<1, 2, 3>>)],
     [error |-> "WrongCrc", data |-> BitBuffer(NtPayload)],
     [error |-> "WrongCrc", data |-> BitBuffer(NtPayload \o <<5>>)]}
    \cup {Failed("Timeout"), Failed("NotPresent")}

\* Arguments of a nested nonce request.
NestedNtArgs ==
    {[block_num |-> 0, key_type |-> "A", has_nt |-> TRUE, backdoor_auth |-> FALSE],
     [block_num |-> 5, key_type |-> "B", has_nt |-> TRUE, backdoor_auth |-> TRUE],
     [block_num |-> 0, key_type |-> "A", has_nt |-> FALSE, backdoor_auth |-> FALSE]}

\* Arguments of an authenticate call (the nested and early-return flags are
\* the action's).
AuthArgs ==
    {[block_num |-> 0, key |-> KeyA, key_type |-> "A", has_data |-> TRUE,
      backdoor_auth |-> FALSE],
     [block_num |-> 5, key |-> KeyA, key_type |-> "B", has_data |-> FALSE,
      backdoor_auth |-> TRUE]}

\* Answers to the reader nonce/response frame.
AuthReplies ==
    {Ok(BitBuffer(<<11, 22, 33, 44>>)), Ok(BitBuffer(<<11, 22, 33>>)),
     Failed("Timeout")}

\* An answer longer than the transcript's TagResponse field.  Copying it out
\* is bit_buffer_write_bytes' business, so it is only given to calls that ask
\* for no transcript.
OverlongAuthReply == Ok(BitBuffer(<<11, 22, 33, 44, 55>>))

AuthRepliesFor(a) == AuthReplies \cup (IF a.has_data THEN {} ELSE {OverlongAuthReply})

\* Answers to a command that expects an acknowledgement (plain, before the
\* tag encrypts them): ACK, NAK, a whole byte.
AckReplies ==
    {Ok(NibbleBuffer(MF_CLASSIC_CMD_ACK)), Ok(NibbleBuffer(4)),
     Ok(BitBuffer(<<MF_CLASSIC_CMD_ACK>>))}
    \cup {Failed("Timeout"), Failed("NotPresent")}

\* Answers to a frame the tag is expected to stay silent on.
SilenceReplies == {Ok(NibbleBuffer(MF_CLASSIC_CMD_ACK))} \cup {Failed(e) : e \in FailErrors}

BlockData == [i \in 1..SizeofMfClassicBlock |-> 16 + i]

\* Answers to a read command (plain): the block with its checksum, the block
\* with a corrupted checksum, the block without checksum.
ReadReplies ==
    {Ok(iso14443_crc_append(BitBuffer(BlockData))),
     Ok(BitBuffer(BlockData \o <<0, 0>>)),
     Ok(BitBuffer(BlockData))}
    \cup {Failed("Timeout"), Failed("NotPresent")}

ValueArgs ==
    {[block_num |-> BlockNum, cmd |-> "Increment", data |-> 5],
     [block_num |-> BlockNum, cmd |-> "Decrement", data |-> 5],
     [block_num |-> BlockNum, cmd |-> "Restore", data |-> -1]}

\* A frame a caller of the send primitives passes down, and answers to it.
CallerFrame == BitBuffer(<<48, 0, 2, 168>>)

RawReplies == {Ok(BitBuffer(<<1, 2>>)), Failed("Timeout"), Failed("WrongCrc")}

(***************************************************************************)
(* State machine                                                           *)
(***************************************************************************)

Inst == [auth_state |-> auth_state, poller_state |-> poller_state, crypto |-> crypto]

Init ==
    /\ auth_state = "Idle"
    /\ poller_state = "Activated"
    /\ crypto = Crypto1Reset
    /\ last = [op |-> "alloc", args |-> <<>>, replies |-> <<>>, ret |-> "None",
               pre |-> [auth_state |-> "Idle", poller_state |-> "Activated",
                        crypto |-> Crypto1Reset],
               tx |-> <<>>, calls |-> <<>>, out |-> <<>>]

\* The call returns: the instance takes the handler's result and `last`
\* keeps what the call was given, what it did and what it gave back.
Return(op, args, replies, res, out) ==
    /\ auth_state' = res.auth_state
    /\ poller_state' = res.poller_state
    /\ crypto' = res.crypto
    /\ last' = [op |-> op, args |-> args, replies |-> replies, ret |-> res.ret,
                pre |-> Inst, tx |-> res.tx, calls |-> res.calls, out |-> out]

\* The card is (re)activated by the link layer.
Activate ==
    /\ poller_state # "Activated"
    /\ Return("activate", <<>>, <<>>,
              [auth_state |-> auth_state, poller_state |-> "Activated", crypto |-> crypto,
               ret |-> "None", tx |-> <<>>, calls |-> <<>>], <<>>)

\* The error mapper, called on its own with any link-layer outcome.
ProcessError ==
    \E error \in Iso14443_3aError :
        Return("process_error", [error |-> error], <<>>,
               [auth_state |-> auth_state, poller_state |-> poller_state, crypto |-> crypto,
                ret |-> mf_classic_process_error(error), tx |-> <<>>, calls |-> <<>>], <<>>)

GetNt ==
    \E a \in NtArgs, reply \in NonceReplies :
      \E g \in {mf_classic_poller_get_nt(crypto, a.block_num, a.key_type, a.has_nt,
                                         a.backdoor_auth, reply)} :
        Return("get_nt", a, <<reply>>,
               [auth_state |-> auth_state, poller_state |-> poller_state,
                crypto |-> g.crypto, ret |-> g.ret, tx |-> g.tx, calls |-> g.calls],
               [nt_written |-> g.nt_written, nt |-> g.nt])

GetNtNested ==
    \E a \in NestedNtArgs, reply \in NonceReplies :
      \E g \in {mf_classic_poller_get_nt_nested(crypto, a.block_num, a.key_type, a.has_nt,
                                                a.backdoor_auth, reply)} :
        Return("get_nt_nested", a, <<reply>>,
               [auth_state |-> auth_state, poller_state |-> poller_state,
                crypto |-> g.crypto, ret |-> g.ret, tx |-> g.tx, calls |-> g.calls],
               [nt_written |-> g.nt_written, nt |-> g.nt])

\* Whether an authenticate call given reply1 goes on to the reader frame, and
\* so draws a reader nonce and consumes a second reply.
AuthProceeds(a, is_nested, early_ret, reply1) ==
    /\ ~early_ret
    /\ mf_classic_poller_get_nt_common(crypto, a.block_num, a.key_type, TRUE, is_nested,
                                       a.backdoor_auth, reply1).ret = "None"

Auth ==
    \E a \in AuthArgs, reply1 \in NonceReplies :
      \E nr \in IF AuthProceeds(a, FALSE, FALSE, reply1) THEN NrValues ELSE {<<>>} :
      \E reply2 \in IF AuthProceeds(a, FALSE, FALSE, reply1) THEN AuthRepliesFor(a)
                    ELSE {NoReply} :
      \E res \in {mf_classic_poller_auth(Inst, a.block_num, a.key, a.key_type, a.has_data,
                                         a.backdoor_auth, reply1, nr, reply2)} :
        Return("auth", a @@ [is_nested |-> FALSE, early_ret |-> FALSE],
               IF reply2 = NoReply THEN <<reply1>> ELSE <<reply1, reply2>>,
               res, [ctx |-> res.ctx, nr |-> nr])

AuthNested ==
    \E a \in AuthArgs, early_ret \in BOOLEAN, reply1 \in NonceReplies :
      \E nr \in IF AuthProceeds(a, TRUE, early_ret, reply1) THEN NrValues ELSE {<<>>} :
      \E reply2 \in IF AuthProceeds(a, TRUE, early_ret, reply1) THEN AuthRepliesFor(a)
                    ELSE {NoReply} :
      \E res \in {mf_classic_poller_auth_nested(Inst, a.block_num, a.key, a.key_type,
                      a.has_data, a.backdoor_auth, early_ret, reply1, nr, reply2)} :
        Return("auth_nested", a @@ [is_nested |-> TRUE, early_ret |-> early_ret],
               IF reply2 = NoReply THEN <<reply1>> ELSE <<reply1, reply2>>,
               res, [ctx |-> res.ctx, nr |-> nr])

Halt ==
    \E reply \in SilenceReplies :
      \E res \in {mf_classic_poller_halt(Inst, reply)} :
        Return("halt", <<>>, <<reply>>, res, <<>>)

ReadBlock ==
    \E block_num \in {BlockNum}, reply \in ReadReplies :
      \E res \in {mf_classic_poller_read_block(Inst, block_num, reply)} :
        Return("read_block", [block_num |-> block_num], <<reply>>, res,
               [data |-> res.data])

\* Whether the first phase of write or apply was acknowledged, so that the
\* call consumes a second reply.
Acked(plain, reply1) == AckExchange(crypto, "", plain, reply1).ret = "None"

WriteBlock ==
    \E block_num \in {BlockNum}, reply1 \in AckReplies :
      \E reply2 \in IF Acked(BitBuffer(<<MF_CLASSIC_CMD_WRITE_BLOCK, block_num>>), reply1)
                    THEN AckReplies ELSE {NoReply} :
      \E res \in {mf_classic_poller_write_block(Inst, block_num, BlockData,
                                                reply1, reply2)} :
        Return("write_block", [block_num |-> block_num, data |-> BlockData],
               IF reply2 = NoReply THEN <<reply1>> ELSE <<reply1, reply2>>, res, <<>>)

ValueCmd ==
    \E a \in ValueArgs, reply1 \in AckReplies :
      \E reply2 \in IF Acked(BitBuffer(<<ValueCmdByte(a.cmd), a.block_num>>), reply1)
                    THEN SilenceReplies ELSE {NoReply} :
      \E res \in {mf_classic_poller_value_cmd(Inst, a.block_num, a.cmd, a.data,
                                              reply1, reply2)} :
        Return("value_cmd", a,
               IF reply2 = NoReply THEN <<reply1>> ELSE <<reply1, reply2>>, res, <<>>)

ValueTransfer ==
    \E block_num \in {BlockNum}, reply \in AckReplies :
      \E res \in {mf_classic_poller_value_transfer(Inst, block_num, reply)} :
        Return("value_transfer", [block_num |-> block_num], <<reply>>, res, <<>>)

SendStandardFrame ==
    \E reply \in RawReplies :
      \E res \in {mf_classic_poller_send_standard_frame(Inst, CallerFrame, reply)} :
        Return("send_standard_frame", [tx_buffer |-> CallerFrame], <<reply>>, res,
               [rx |-> res.rx])

SendFrame ==
    \E reply \in RawReplies :
      \E res \in {mf_classic_poller_send_frame(Inst, CallerFrame, reply)} :
        Return("send_frame", [tx_buffer |-> CallerFrame], <<reply>>, res, [rx |-> res.rx])

SendCustomParityFrame ==
    \E reply \in RawReplies :
      \E res \in {mf_classic_poller_send_custom_parity_frame(Inst, CallerFrame, reply)} :
        Return("send_custom_parity_frame", [tx_buffer |-> CallerFrame], <<reply>>, res,
               [rx |-> res.rx])

SendEncryptedFrame ==
    \E reply \in RawReplies :
      \E res \in {mf_classic_poller_send_encrypted_frame(Inst, CallerFrame, reply)} :
        Return("send_encrypted_frame", [tx_buffer |-> CallerFrame], <<reply>>, res,
               [rx |-> res.rx])

Next ==
    \/ Activate
    \/ ProcessError
    \/ GetNt
    \/ GetNtNested
    \/ Auth
    \/ AuthNested
    \/ Halt
    \/ ReadBlock
    \/ WriteBlock
    \/ ValueCmd
    \/ ValueTransfer
    \/ SendStandardFrame
    \/ SendFrame
    \/ SendCustomParityFrame
    \/ SendEncryptedFrame

Spec == Init /\ [][Next]_vars

(***************************************************************************)
(* Vocabulary of the properties                                            *)
(***************************************************************************)

AuthOps == {"auth", "auth_nested"}

\* The operations that run inside an authenticated session.
SessionOps == {"read_block", "write_block", "value_cmd", "value_transfer", "halt"}

PayloadBytes(reply) == Len(reply.data.data)

Count(seq, x) == Cardinality({i \in 1..Len(seq) : seq[i] = x})

FramesOf(what) == {i \in 1..Len(last.tx) : last.tx[i].what = what}

\* The authenticate call went on from the nonce exchange to the reader frame.
ReachedReaderFrame == last.op \in AuthOps /\ Len(last.replies) = 2

(***************************************************************************)
(* Properties                                                              *)
(***************************************************************************)

\* C1: a fresh nonce request returns no-error with the nonce equal to the
\* received payload if and only if the link layer reports a checksum failure
\* and the payload is exactly 4 bytes; every other link outcome (a clean
\* success included) and every wrong-length payload returns Protocol.
C1_FreshNonceContract ==
    (last.op = "get_nt" /\ last.args.has_nt) =>
        LET r == last.replies[1]
            expected == r.error = "WrongCrc" /\ PayloadBytes(r) = 4
        IN  /\ (last.ret = "None" /\ last.out.nt_written /\ last.out.nt = r.data.data)
               <=> expected
            /\ ~expected => last.ret = "Protocol"

\* C2: halt on a card that answers the halt frame (any link outcome other
\* than timeout) returns Protocol and leaves AuthState and the link-layer
\* poller state as they were.
C2_AnsweredHaltIsProtocol ==
    (last.op = "halt" /\ last.replies[1].error # "Timeout") =>
        /\ last.ret = "Protocol"
        /\ auth_state = last.pre.auth_state
        /\ poller_state = last.pre.poller_state

\* C3 (as claimed): an authenticate call that returns an error has issued
\* exactly one halt, and that halt is the session's own encrypted halt
\* exchange; a call that returns no-error issues no halt.
C3_FailingAuthIssuesSessionHalt ==
    last.op \in AuthOps =>
        /\ Cardinality(FramesOf("halt_cmd")) = (IF last.ret # "None" THEN 1 ELSE 0)
        /\ Count(last.calls, "iso14443_3a_poller_halt") = 0

\* C3 (amended): an authenticate call that returns an error has issued
\* exactly one halt, as its last step, and that halt is the link layer's: no
\* encrypted halt frame is sent and AuthState is not reset by it (it is Passed
\* if the reader frame was answered without link error, else as before the
\* call); a call that returns no-error issues no halt.
C3_FailingAuthHaltsLinkLayer ==
    last.op \in AuthOps =>
        /\ FramesOf("halt_cmd") = {}
        /\ Count(last.calls, "iso14443_3a_poller_halt") = (IF last.ret # "None" THEN 1 ELSE 0)
        /\ last.ret # "None" =>
              /\ last.calls[Len(last.calls)] = "iso14443_3a_poller_halt"
              /\ auth_state = IF Len(last.replies) = 2 /\ last.replies[2].error = "None"
                              THEN "Passed" ELSE last.pre.auth_state

C3_Witness ==
    /\ last.op \in AuthOps
    /\ last.ret = "Auth"
    /\ Count(last.calls, "iso14443_3a_poller_halt") = 1
    /\ auth_state = "Passed"

\* C4: AuthState is Passed only if the most recent authenticate call returned
\* no-error and no halt and no failing operation has occurred since: Passed is
\* entered only by an authenticate call that returns no-error, and it is never
\* Passed right after a halt or after an operation that returned an error.
C4_PassedOnlyAfterSuccessfulAuth ==
    /\ (auth_state = "Passed" /\ last.pre.auth_state # "Passed") =>
          (last.op \in AuthOps /\ last.ret = "None")
    /\ last.ret # "None" => auth_state # "Passed"
    /\ last.op = "halt" => auth_state # "Passed"

\* C5: read, write, apply, transfer and halt, invoked while
\* AuthState is Idle, send no frame and consume no keystream.
C5_SessionOpsRequirePassed ==
    (last.op \in SessionOps /\ last.pre.auth_state = "Idle") =>
        /\ last.tx = <<>>
        /\ Count(last.calls, "crypto1_encrypt") = 0

\* The nonce exchange of the last authenticate call got what its mode expects.
NonceExchangeOk ==
    /\ last.replies[1].error = (IF last.args.is_nested THEN "None" ELSE "WrongCrc")
    /\ PayloadBytes(last.replies[1]) = 4

\* C6: authenticate with early_ret set never transmits the reader frame, never
\* initialises the cipher from the key and never changes AuthState to Passed;
\* when the nonce exchange succeeds it returns no-error with only the tag
\* nonce recorded in the transcript.
C6_EarlyReturnStopsAfterNonce ==
    (last.op \in AuthOps /\ last.args.early_ret) =>
        /\ FramesOf("nr_ar") = {}
        /\ Count(last.calls, "crypto1_encrypt_reader_nonce") = 0
        /\ [crypto EXCEPT !.pos = 0] = [last.pre.crypto EXCEPT !.pos = 0]
        /\ auth_state = "Passed" => last.pre.auth_state = "Passed"
        /\ NonceExchangeOk =>
              /\ last.ret = "None"
              /\ last.out.ctx =
                    IF last.args.has_data
                    THEN [NoTranscript EXCEPT !.nt = last.replies[1].data.data]
                    ELSE NoTranscript

C6_Witness ==
    /\ last.op = "auth_nested"
    /\ last.args.early_ret
    /\ last.ret = "None"
    /\ last.out.ctx.nt = NtPayload
    /\ last.out.ctx.nr = <<>>
    /\ last.pre.crypto.key # 0

\* C7: from AuthState Idle, an authenticate call (early_ret unset) whose nonce
\* exchange returned no error and whose reader frame is answered with 4 bytes
\* and no link error returns no-error, leaves AuthState Passed, advances the
\* cipher by exactly one extra step, and yields a transcript with the received
\* tag nonce, the RNG's reader nonce, bytes 4..7 of the transmitted frame and
\* the 4 received bytes undecrypted.
C7_HandshakeTranscript ==
    (/\ ReachedReaderFrame
     /\ last.pre.auth_state = "Idle"
     /\ last.replies[2].error = "None"
     /\ PayloadBytes(last.replies[2]) = 4) =>
        /\ last.ret = "None"
        /\ auth_state = "Passed"
        /\ Count(last.calls, "crypto1_word") = 1
        /\ last.args.has_data =>
              /\ last.out.ctx.nt = last.replies[1].data.data
              /\ last.out.ctx.nr = last.out.nr
              /\ last.out.ctx.ar = SubSeq(last.tx[2].buf.data, 5, 8)
              /\ last.out.ctx.at = last.replies[2].data.data

\* C8: a nested nonce request returns no-error exactly when the exchange has
\* no link error and the payload is exactly 4 bytes; a link error (a checksum
\* failure included) returns its mapped, non-none error, a wrong length
\* returns Protocol, and in neither failure case is the caller's nonce written.
C8_NestedNonceContract ==
    last.op = "get_nt_nested" =>
        LET r == last.replies[1]
        IN  /\ last.ret = "None" <=> (r.error = "None" /\ PayloadBytes(r) = 4)
            /\ r.error = "WrongCrc" => last.ret = "Protocol"
            /\ r.error = "Timeout" => last.ret = "Timeout"
            /\ r.error = "NotPresent" => last.ret = "NotPresent"
            /\ (r.error = "None" /\ PayloadBytes(r) # 4) => last.ret = "Protocol"
            /\ last.ret # "None" => ~last.out.nt_written
            /\ (last.ret = "None" /\ last.args.has_nt) =>
                  (last.out.nt_written /\ last.out.nt = r.data.data)

C8_Witness ==
    /\ last.op = "get_nt_nested"
    /\ last.replies[1].error = "WrongCrc"
    /\ PayloadBytes(last.replies[1]) = 4
    /\ last.ret = "Protocol"
    /\ ~last.out.nt_written

\* C9: in apply, once the first frame was acknowledged, the call returns
\* no-error if and only if the link layer reports a timeout for the operand
\* frame; every other outcome of that frame returns Protocol.
C9_ValueOperandSilence ==
    (last.op = "value_cmd" /\ Len(last.replies) = 2) =>
        /\ last.ret = "None" <=> last.replies[2].error = "Timeout"
        /\ last.replies[2].error # "Timeout" => last.ret = "Protocol"

C9_Witness ==
    /\ last.op = "value_cmd"
    /\ Len(last.replies) = 2
    /\ last.replies[2].error = "None"
    /\ last.ret = "Protocol"
    /\ last.pre.auth_state = "Passed"

\* C10: read writes the caller's block only when it returns no-error, that is
\* on link success with exactly block-size+2 bytes whose checksum is valid
\* after decryption; on a link error, a wrong length or a corrupted checksum
\* it returns an error and the caller's block is left alone.  (The reply holds
\* the answer as the tag formed it, before the tag encrypted it.)
C10_ReadWritesOnlyOnSuccess ==
    last.op = "read_block" =>
        LET r == last.replies[1]
            good == /\ r.error = "None"
                    /\ PayloadBytes(r) = SizeofMfClassicBlock + 2
                    /\ iso14443_crc_check(r.data)
        IN  /\ last.ret = "None" <=> good
            /\ good => last.out.data = SubSeq(r.data.data, 1, SizeofMfClassicBlock)
            /\ ~good => last.out.data = <<>>

C10_Witness ==
    /\ last.op = "read_block"
    /\ last.pre.auth_state = "Passed"
    /\ last.replies[1].error = "None"
    /\ PayloadBytes(last.replies[1]) = SizeofMfClassicBlock + 2
    /\ last.ret = "Protocol"
    /\ last.out.data = <<>>
    /\ last.tx[1].buf.data # <<MF_CLASSIC_CMD_READ_BLOCK, BlockNum>> \o
                             CrcA(<<MF_CLASSIC_CMD_READ_BLOCK, BlockNum>>)

\* The tag's answer is an acknowledgement: no link error, 4 bits, the ACK code.
IsAck(reply) ==
    /\ reply.error = "None"
    /\ reply.data.bits = 4
    /\ reply.data.data[1] = MF_CLASSIC_CMD_ACK

\* The error categories as the specification tabulates them.
MappedError(e) ==
    IF e = "None" THEN "None"
    ELSE IF e = "NotPresent" THEN "NotPresent"
    ELSE IF e = "Timeout" THEN "Timeout"
    ELSE "Protocol"

\* C11 (as claimed): write returns Protocol for every deviation in either of
\* its two phases (wrong size, non-ACK code, any link error, timeout and
\* card-not-present included) and no-error only when both phases received an
\* ACK.
C11_WriteDeviationIsProtocol ==
    last.op = "write_block" =>
        /\ last.ret = "None" <=>
              (Len(last.replies) = 2 /\ IsAck(last.replies[1]) /\ IsAck(last.replies[2]))
        /\ last.ret # "None" => last.ret = "Protocol"

\* C11 (amended): write returns no-error only when both phases received an
\* ACK; a response of the wrong size or a non-ACK code returns Protocol, and a
\* link error returns its mapped error: Timeout for a timeout, NotPresent for
\* card-not-present, Protocol for the others.
C11_WriteDeviationIsMapped ==
    last.op = "write_block" =>
        LET r == last.replies[Len(last.replies)]
        IN  /\ last.ret = "None" <=>
                  (Len(last.replies) = 2 /\ IsAck(last.replies[1]) /\ IsAck(last.replies[2]))
            /\ r.error # "None" => (last.ret = MappedError(r.error) /\ last.ret # "None")
            /\ (r.error = "None" /\ ~IsAck(r)) => last.ret = "Protocol"

C11_Witness ==
    /\ last.op = "write_block"
    /\ last.pre.auth_state = "Passed"
    /\ Len(last.replies) = 2
    /\ last.replies[2].error = "Timeout"
    /\ last.ret = "Timeout"

\* C12: halt called twice in a row on a card that stays silent: each call
\* returns no-error, and after the first and after the second call AuthState
\* is Idle and the link-layer poller state is idle, whatever they were before
\* the first call.
C12_HaltTwiceIsSafe ==
    [][(/\ last.op = "halt" /\ last.replies[1].error = "Timeout"
        /\ last'.op = "halt" /\ last'.replies[1].error = "Timeout") =>
       (/\ last.ret = "None" /\ auth_state = "Idle" /\ poller_state = "Idle"
        /\ last'.ret = "None" /\ auth_state' = "Idle" /\ poller_state' = "Idle"
        /\ last'.pre.auth_state = "Idle" /\ last'.pre.poller_state = "Idle")]_vars

\* The second of two halts of a session that had been authenticated.
C12_Witness ==
    /\ last.op = "halt"
    /\ last.replies[1].error = "Timeout"
    /\ last.pre.auth_state = "Idle"
    /\ last.pre.poller_state = "Idle"
    /\ last.pre.crypto.key # 0
    /\ last.ret = "None"
    /\ auth_state = "Idle"
    /\ poller_state = "Idle"

\* The operations that use the live cipher session, halt apart.
AuthenticatedOps ==
    {"read_block", "write_block", "value_cmd", "value_transfer", "send_encrypted_frame"}

\* C13: once a read, write, apply, transfer or encrypted send has returned an
\* error, no further authenticated operation transmits a frame until a halt
\* has been performed; in particular the authenticated operation called right
\* after the failed one transmits nothing.
C13_NoAuthenticatedOpAfterError ==
    [][(/\ last.op \in AuthenticatedOps /\ last.ret # "None"
        /\ last'.op \in AuthenticatedOps) =>
       last'.tx = <<>>]_vars

\* C14: the error mapper is a total pure function: no-error maps to none,
\* card-not-detected to not-present, timeout to timeout, and
\* collision-resolution-failed, communication-failure, checksum-mismatch and
\* every unrecognised value to protocol; it returns none only for no-error,
\* sends nothing and leaves the session as it was.
C14_ErrorMapperTable ==
    last.op = "process_error" =>
        LET e == last.args.error
        IN  /\ e = "None" => last.ret = "None"
            /\ e = "NotPresent" => last.ret = "NotPresent"
            /\ e = "Timeout" => last.ret = "Timeout"
            /\ e \in {"ColResFailed", "Communication", "WrongCrc"} => last.ret = "Protocol"
            /\ e \notin {"None", "NotPresent", "Timeout", "ColResFailed", "Communication",
                         "WrongCrc"} => last.ret = "Protocol"
            /\ last.ret = "None" <=> e = "None"
            /\ last.tx = <<>> /\ last.calls = <<>>
            /\ Inst = last.pre

C14_Witness ==
    /\ last.op = "process_error"
    /\ last.args.error = "FieldOff"
    /\ last.ret = "Protocol"
    /\ last.pre.auth_state = "Passed"

\* C15: no operation retries a failed exchange: after the first exchange whose
\* outcome is not the expected one no further command frame is sent in that
\* call, the only follow-up being the single halt inside a failing
\* authenticate; each call makes at most two command exchanges, one for read,
\* transfer and halt.
C15_NoRetry ==
    /\ Len(last.tx) <= 2
    /\ \A i, j \in 1..Len(last.tx) : i # j => last.tx[i].what # last.tx[j].what
    /\ last.op \in {"read_block", "value_transfer", "halt"} => Len(last.tx) = 1
    /\ (last.op \in AuthOps /\ ~NonceExchangeOk) => Len(last.tx) = 1
    /\ (last.op \in {"write_block", "value_cmd"} /\ ~IsAck(last.replies[1])) =>
          Len(last.tx) = 1
    /\ Count(last.calls, "iso14443_3a_poller_halt") <= 1
    /\ Count(last.calls, "iso14443_3a_poller_halt") = 1 =>
          (last.op \in AuthOps /\ last.ret # "None")

C17_SecondFrameOnlyAfterAck ==
    /\ last.op = "write_block" =>
          /\ FramesOf("write_data") # {} <=> IsAck(last.replies[1])
          /\ Len(last.tx) = (IF IsAck(last.replies[1]) THEN 2 ELSE 1)
          /\ IsAck(last.replies[1]) => last.tx[2].buf.bits = 8 * (SizeofMfClassicBlock + 2)
    /\ last.op = "value_cmd" =>
          /\ FramesOf("value_operand") # {} <=> IsAck(last.replies[1])
          /\ Len(last.tx) = (IF IsAck(last.replies[1]) THEN 2 ELSE 1)
          /\ IsAck(last.replies[1]) => last.tx[2].buf.bits = 8 * (4 + 2)
    /\ last.op = "value_transfer" =>
          (last.ret = "None" <=> IsAck(last.replies[1]))

C17_Witness ==
    /\ last.op = "value_cmd"
    /\ last.pre.auth_state = "Passed"
    /\ last.replies[1].error = "None"
    /\ ~IsAck(last.replies[1])
    /\ Len(last.tx) = 1
    /\ last.ret = "Protocol"

\* The error the nonce exchange of the last authenticate call ends with, by
\* its mode: the mapped link error if the link outcome is not the one the
\* mode expects, Protocol for a payload that is not 4 bytes, else none.
NonceError ==
    LET r == last.replies[1]
        expected == IF last.args.is_nested THEN "None" ELSE "WrongCrc"
    IN  IF r.error # expected THEN MappedError(r.error)
        ELSE IF PayloadBytes(r) # 4 THEN "Protocol" ELSE "None"

\* C18 (as claimed): if the nonce exchange inside authenticate fails,
\* authenticate returns exactly the error of the nonce exchange, transmits no
\* reader frame, writes no field of the transcript, and leaves AuthState and
\* the cipher state as they were before the call.
C18_FailedNonceChangesNothing ==
    (last.op \in AuthOps /\ NonceError # "None") =>
        /\ last.ret = NonceError
        /\ FramesOf("nr_ar") = {}
        /\ last.out.ctx = NoTranscript
        /\ auth_state = last.pre.auth_state
        /\ crypto = last.pre.crypto

\* C18 (amended): if the nonce exchange inside authenticate fails,
\* authenticate returns exactly the error of the nonce exchange, transmits no
\* reader frame, writes no field of the transcript and leaves AuthState as it
\* was; the cipher state is as before in fresh mode, and in nested mode it
\* keeps its key material but has advanced by the 32 bits of the encrypted
\* command frame.
C18_FailedNonceKeepsSession ==
    (last.op \in AuthOps /\ NonceError # "None") =>
        /\ last.ret = NonceError
        /\ FramesOf("nr_ar") = {}
        /\ last.out.ctx = NoTranscript
        /\ auth_state = last.pre.auth_state
        /\ crypto = IF last.args.is_nested
                    THEN [last.pre.crypto EXCEPT !.pos = (@ + 8) % KsPeriod]
                    ELSE last.pre.crypto

C18_Witness ==
    /\ last.op = "auth_nested"
    /\ last.pre.auth_state = "Passed"
    /\ last.args.has_data
    /\ last.replies[1].error = "WrongCrc"
    /\ last.ret = "Protocol"
    /\ auth_state = "Passed"
    /\ crypto # last.pre.crypto
    /\ last.out.ctx = NoTranscript

\* C19: whenever authenticate initialises the cipher and transmits the reader
\* frame, the tag nonce it uses and records in the transcript is the 4-byte
\* payload received in the nonce exchange of that call; it never goes on to
\* the handshake with a nonce that was not received from the tag.
C19_NonceIsTheReceivedOne ==
    (last.op \in AuthOps /\ FramesOf("nr_ar") # {}) =>
        /\ PayloadBytes(last.replies[1]) = 4
        /\ crypto.nt = last.replies[1].data.data
        /\ last.args.has_data => last.out.ctx.nt = last.replies[1].data.data

\* C20: AuthState is modified only by authenticate (to Passed) and by halt on
\* the expected timeout (to Idle); read, write, apply, transfer, the nonce
\* requests, the error mapper and the four send primitives leave it unchanged
\* on every outcome.
C20_AuthStateWriters ==
    /\ last.op \notin AuthOps \cup {"halt"} => auth_state = last.pre.auth_state
    /\ last.op \in AuthOps => auth_state \in {last.pre.auth_state, "Passed"}
    /\ last.op = "halt" =>
          auth_state = IF last.replies[1].error = "Timeout" THEN "Idle"
                       ELSE last.pre.auth_state

C20_Witness ==
    /\ last.op = "value_transfer"
    /\ last.pre.auth_state = "Passed"
    /\ last.ret # "None"
    /\ auth_state = "Passed"

====
